---- MODULE Spec2Model ----
(***************************************************************************)
(* A model of flipy.py, the Flickr API wrapper: the response mapper        *)
(* (Response.get), the request signer (Flipy.__url), the method wrapper    *)
(* (Method.__call__, Flipy.parse_response) and the paginator               *)
(* (Method.paginate).                                                      *)
(*                                                                         *)
(* Python strings are sequences of one-character strings, so that          *)
(* endswith, slicing, concatenation and comparison are computed.  Python   *)
(* values are records tagged by "kind": None, str, int, list, Response     *)
(* and a raised exception.  Assertions are enabled (no python -O).         *)
(*                                                                         *)
(* SpecMap applies Response.get to a universe of elements, SpecSign        *)
(* applies Flipy.resturl to keyword arguments in two insertion orders,     *)
(* Spec runs a caller against a remote method: a direct call, Photo.info   *)
(* on its result, or the paginate generator and its consumer.              *)
(***************************************************************************)
EXTENDS Integers, Sequences, FiniteSets, TLC

VARIABLES
  node,        \* Map: the lxml element handed to Response.get
  mapped,      \* Map: what Response.get returned or raised, Pending before
  signer,      \* Sign: the Flipy instance whose __url is called
  argsA,       \* Sign: keyword arguments, in one insertion order
  argsB,       \* Sign: the same keyword arguments, in another insertion order
  urlA,        \* Sign: what resturl(**argsA) returned or raised
  urlB,        \* Sign: what resturl(**argsB) returned or raised
  module_flickr, \* the module global "flickr": a Flipy, or Unbound
  client,      \* the Flipy instance the caller invokes methods on
  remote,      \* how the remote method answers
  pc,          \* where the caller and the paginate generator stand
  args,        \* paginate: the local dict args
  results,     \* paginate: the local results; after a call, what it returned
  idx,         \* paginate: how many items of results the for loop has taken
  yielded,     \* the items the generator has yielded, in order
  fetches,     \* the requests that reached the transport, in order
  response,    \* the envelope of the last response, None before
  exc          \* the exception that reached the caller, None if none

varsMap == <<node, mapped>>
varsSign == <<signer, argsA, argsB, urlA, urlB>>
varsCall == <<module_flickr, client, remote, pc, args, results, idx, yielded,
              fetches, response, exc>>
vars == <<varsMap, varsSign, varsCall>>

(***************************************************************************)
(* String literals of the source and of the inputs.                        *)
(***************************************************************************)
s_activity == <<"a", "c", "t", "i", "v", "i", "t", "y">>
s_event == <<"e", "v", "e", "n", "t">>
s_iconsphoto == <<"i", "c", "o", "n", "s", "p", "h", "o", "t", "o">>
s_photo == <<"p", "h", "o", "t", "o">>
s_collection == <<"c", "o", "l", "l", "e", "c", "t", "i", "o", "n">>
s_set == <<"s", "e", "t">>
s_category == <<"c", "a", "t", "e", "g", "o", "r", "y">>
s_subcat == <<"s", "u", "b", "c", "a", "t">>
s_group == <<"g", "r", "o", "u", "p">>
s_exif == <<"e", "x", "i", "f">>
s_person == <<"p", "e", "r", "s", "o", "n">>
s_uploader == <<"u", "p", "l", "o", "a", "d", "e", "r">>
s_ticket == <<"t", "i", "c", "k", "e", "t">>
s_photoset == <<"p", "h", "o", "t", "o", "s", "e", "t">>
s_cluster == <<"c", "l", "u", "s", "t", "e", "r">>
s_tag == <<"t", "a", "g">>
s_hottags == <<"h", "o", "t", "t", "a", "g", "s">>
s_raw == <<"r", "a", "w">>
s_people == <<"p", "e", "o", "p", "l", "e">>
s_photos == <<"p", "h", "o", "t", "o", "s">>
s_user == <<"u", "s", "e", "r">>
s_prevphoto == <<"p", "r", "e", "v", "p", "h", "o", "t", "o">>
s_nextphoto == <<"n", "e", "x", "t", "p", "h", "o", "t", "o">>
s_owner == <<"o", "w", "n", "e", "r">>
s_note == <<"n", "o", "t", "e">>
s_id == <<"i", "d">>
s_rsp == <<"r", "s", "p">>
s_stat == <<"s", "t", "a", "t">>
s_ok == <<"o", "k">>
s_fail == <<"f", "a", "i", "l">>
s_err == <<"e", "r", "r">>
s_code == <<"c", "o", "d", "e">>
s_msg == <<"m", "s", "g">>
s_page == <<"p", "a", "g", "e">>
s_pages == <<"p", "a", "g", "e", "s">>
s_has_next_page == <<"h", "a", "s", "_", "n", "e", "x", "t", "_", "p", "a", "g", "e">>
s_api_key == <<"a", "p", "i", "_", "k", "e", "y">>
s_auth_token == <<"a", "u", "t", "h", "_", "t", "o", "k", "e", "n">>
s_api_sig == <<"a", "p", "i", "_", "s", "i", "g">>
s_method == <<"m", "e", "t", "h", "o", "d">>
s_secret == <<"s", "e", "c", "r", "e", "t">>
s_user_id == <<"u", "s", "e", "r", "_", "i", "d">>
s_photo_id == <<"p", "h", "o", "t", "o", "_", "i", "d">>
s_tags == <<"t", "a", "g", "s">>
s_nsid == <<"n", "s", "i", "d">>
s_rest == <<"h", "t", "t", "p", ":", "/", "/", "f", "l", "i", "c", "k", "r", ".", "c", "o", "m", "/", "s", "e", "r", "v", "i", "c", "e", "s", "/", "r", "e", "s", "t">>
s_flickr_test == <<"f", "l", "i", "c", "k", "r", ".", "t", "e", "s", "t">>
s_key == <<"k", "1">>
s_key2 == <<"k", "2">>
s_tok == <<"t", "0">>
s_main_key == <<"7", "e", "4", "7", "2", "3", "0", "4", "a", "d", "5", "2", "e", "b", "c", "c", "5", "a", "2", "6", "6", "4", "6", "3", "c", "d", "2", "4", "7", "a", "d", "3">>
s_flickr_dot == <<"f", "l", "i", "c", "k", "r", ".">>
s_search == <<"s", "e", "a", "r", "c", "h">>
s_getInfo == <<"g", "e", "t", "I", "n", "f", "o">>
s_Error_ == <<"E", "r", "r", "o", "r", " ">>
s_error == <<"e", "r", "r", "o", "r">>
s_total == <<"t", "o", "t", "a", "l">>
s_a == <<"a">>
s_b == <<"b">>
s_x == <<"x">>
s_1 == <<"1">>
s_0 == <<"0">>

(***************************************************************************)
(* Python values.                                                          *)
(***************************************************************************)
None == [kind |-> "None"]
StrV(s) == [kind |-> "str", s |-> s]
IntV(n) == [kind |-> "int", n |-> n]
ListV(items) == [kind |-> "list", items |-> items]
DictV(d) == [kind |-> "dict", d |-> d]
Raise(name, detail) == [kind |-> "raise", exc |-> name, args |-> detail]
IsRaise(v) == v.kind = "raise"
Pending == [kind |-> "pending"]
\* the module global "flickr" when the module was imported, not run
Unbound == [kind |-> "unbound"]

\* dict.has_key(k)
has_key(d, k) == k \in DOMAIN d
\* d[k] = v
DictSet(d, k, v) == [x \in (DOMAIN d) \cup {k} |-> IF x = k THEN v ELSE d[x]]
EmptyDict == [x \in {} |-> None]

\* an lxml element
Element(tag, attrib, children, text) ==
  [tag |-> tag, attrib |-> attrib, children |-> children, text |-> text]

(***************************************************************************)
(* class Response                                                          *)
(***************************************************************************)
\* Response.MULTIPLES
MULTIPLES ==
  [t \in {s_activity, s_iconsphoto, s_collection, s_category, s_photo,
          s_uploader, s_photoset, s_cluster, s_hottags, s_tag, s_people} |->
     CASE t = s_activity   -> {s_event}
       [] t = s_iconsphoto -> {s_photo}
       [] t = s_collection -> {s_set, s_collection}
       [] t = s_category   -> {s_subcat, s_group}
       [] t = s_photo      -> {s_exif, s_person}
       [] t = s_uploader   -> {s_ticket}
       [] t = s_photoset   -> {s_photo}
       [] t = s_cluster    -> {s_tag}
       [] t = s_hottags    -> {s_tag}
       [] t = s_tag        -> {s_raw}
       [] t = s_people     -> {s_person}]

\* Response.CUSTOM after the two @Response.custom decorators have run
CUSTOM ==
  [t \in {s_user, s_photo, s_prevphoto, s_nextphoto} |->
     IF t = s_user THEN "User" ELSE "Photo"]

\* str.endswith('s')
endswith_s(tag) == Len(tag) > 0 /\ tag[Len(tag)] = "s"

\* singular = None; if node.tag.endswith('s'): singular = node.tag[:-1]
Singular(tag) ==
  IF endswith_s(tag) THEN StrV(SubSeq(tag, 1, Len(tag) - 1)) ELSE None

\* child.tag == singular
IsSingularChild(parentTag, childTag) == StrV(childTag) = Singular(parentTag)

\* Response.MULTIPLES.has_key(node.tag) and child.tag in Response.MULTIPLES[node.tag]
IsMultiple(parentTag, childTag) ==
  has_key(MULTIPLES, parentTag) /\ childTag \in MULTIPLES[parentTag]

\* Response.__init__, reached through the constructor Response.get selected
Constructor(flickr, tag, attrs, children) ==
  [kind |-> "Response",
   class |-> IF has_key(CUSTOM, tag) THEN CUSTOM[tag] ELSE "Response",
   flickr |-> flickr, tag |-> tag, attrs |-> attrs, children |-> children]

AppendChildFront(children, v) == <<v>> \o children

\* children.append(Response.get(flickr, child))
AppendChild(children, v) == Append(children, v)

MultipleFirstBare(v) == v

\* attrs[child.tag] = [Response.get(flickr, child)]
MultipleFirst(v) == ListV(<<v>>)

\* attrs[child.tag].append(Response.get(flickr, child))
MultipleAppend(lst, v) == ListV(Append(lst.items, v))

SingleConflictIgnored(attrs, tag) == FALSE

\* if attrs.has_key(child.tag): raise FlipyAttributeConflictError()
SingleConflict(attrs, tag) == has_key(attrs, tag)

ConflictError == Raise("FlipyAttributeConflictError", <<>>)

RECURSIVE ResponseGet(_, _)
RECURSIVE GetLoop(_, _, _, _, _)

\* the for loop of Response.get, from child number i on
GetLoop(flickr, n, i, attrs, children) ==
  IF i > Len(n.children)
  THEN [kind |-> "loop", attrs |-> attrs, children |-> children]
  ELSE
    LET child == n.children[i] IN
    IF IsSingularChild(n.tag, child.tag)
    THEN LET v == ResponseGet(flickr, child) IN
         IF IsRaise(v) THEN v
         ELSE GetLoop(flickr, n, i + 1, attrs, AppendChild(children, v))
    ELSE IF IsMultiple(n.tag, child.tag)
    THEN IF has_key(attrs, child.tag)
         THEN IF attrs[child.tag].kind = "list"
              THEN LET v == ResponseGet(flickr, child) IN
                   IF IsRaise(v) THEN v
                   ELSE GetLoop(flickr, n, i + 1,
                          DictSet(attrs, child.tag,
                                  MultipleAppend(attrs[child.tag], v)),
                          children)
              ELSE ConflictError
         ELSE LET v == ResponseGet(flickr, child) IN
              IF IsRaise(v) THEN v
              ELSE GetLoop(flickr, n, i + 1,
                     DictSet(attrs, child.tag, MultipleFirst(v)), children)
    ELSE IF SingleConflict(attrs, child.tag)
         THEN ConflictError
         ELSE LET v == ResponseGet(flickr, child) IN
              IF IsRaise(v) THEN v
              ELSE GetLoop(flickr, n, i + 1,
                     DictSet(attrs, child.tag, v), children)

\* Response.get
ResponseGet(flickr, n) ==
  IF Cardinality(DOMAIN n.attrib) = 0 /\ Len(n.children) = 0
  THEN n.text
  ELSE LET r == GetLoop(flickr, n, 1,
                        [k \in DOMAIN n.attrib |-> StrV(n.attrib[k])], <<>>)
       IN IF IsRaise(r) THEN r
          ELSE Constructor(flickr, n.tag, r.attrs, r.children)

\* Response.__getattr__
getattr(r, key) == IF has_key(r.attrs, key) THEN r.attrs[key] ELSE None

\* Response.__len__ and Response.__getitem__
len(r) == Len(r.children)
getitem(r, i) == r.children[i + 1]

(***************************************************************************)
(* Map: Response.get applied to the elements of a bounded universe.        *)
(***************************************************************************)
MaxChildren == 3

SeqsUpTo(S, n) == UNION {[1..k -> S] : k \in 0..n}

\* the child tags a parent tag is tried with
ChildTags(tag) ==
  (IF has_key(MULTIPLES, tag) THEN MULTIPLES[tag] ELSE {})
  \cup (IF endswith_s(tag) THEN {Singular(tag).s} ELSE {})
  \cup {s_owner}

\* the elements a child tag is tried as: no text, text, one attribute,
\* and a child that itself holds two children of one tag
ChildElements(t) ==
  { Element(t, EmptyDict, <<>>, None),
    Element(t, EmptyDict, <<>>, StrV(s_x)),
    Element(t, [k \in {s_id} |-> s_1], <<>>, None),
    Element(t, EmptyDict,
            << Element(s_note, EmptyDict, <<>>, None),
               Element(s_note, EmptyDict, <<>>, None) >>, None) }

RootTags == (DOMAIN MULTIPLES) \cup {s_photos, s_user, s_owner}

RootAttribs(tag) ==
  {EmptyDict, [k \in {s_id} |-> s_1]}
  \cup {[k \in {c} |-> s_x] : c \in ChildTags(tag)}

MapFlickr == "c1"

InitMap ==
  /\ \E tag \in RootTags :
       \E attrib \in RootAttribs(tag) :
         \E kids \in SeqsUpTo(UNION {ChildElements(t) : t \in ChildTags(tag)},
                              MaxChildren) :
           node = Element(tag, attrib, kids, None)
  /\ mapped = Pending
  /\ signer = None /\ argsA = <<>> /\ argsB = <<>>
  /\ urlA = Pending /\ urlB = Pending
  /\ module_flickr = Unbound /\ client = None /\ remote = None /\ pc = "idle"
  /\ args = <<>> /\ results = None /\ idx = 0 /\ yielded = <<>>
  /\ fetches = <<>> /\ response = None /\ exc = None

Map ==
  /\ mapped = Pending
  /\ mapped' = ResponseGet(MapFlickr, node)
  /\ UNCHANGED <<node, varsSign, varsCall>>


(***************************************************************************)
(* Python built-ins used by Flipy.__url.                                   *)
(***************************************************************************)
\* a dict whose items() order follows its insertion history: a sequence of
\* <<key, value>> pairs with distinct keys
Keys(d) == {d[i][1] : i \in 1..Len(d)}
ItemSet(d) == {d[i] : i \in 1..Len(d)}
Lookup(d, k) == d[CHOOSE i \in 1..Len(d) : d[i][1] = k][2]
SetItem(d, k, v) ==
  IF k \in Keys(d)
  THEN [i \in 1..Len(d) |-> IF d[i][1] = k THEN <<k, v>> ELSE d[i]]
  ELSE Append(d, <<k, v>>)

\* the characters of the model in byte order
Alphabet ==
  <<"%", "+", ",", ".", "/", "0", "1", "2", "3", "4", "5", "6", "7", "8", "9",
    ":", "=", "?", "C", "N", "_", "a", "b", "c", "d", "e", "f", "g", "h", "i",
    "j", "k", "l", "m", "n", "o", "p", "q", "r", "s", "t", "u", "v", "w", "x",
    "y", "z">>
ord(c) == CHOOSE i \in 1..Len(Alphabet) : Alphabet[i] = c

RECURSIVE cmp(_, _)
\* cmp(x, y) of two str: -1, 0 or 1
cmp(x, y) ==
  IF Len(x) = 0 /\ Len(y) = 0 THEN 0
  ELSE IF Len(x) = 0 THEN -1
  ELSE IF Len(y) = 0 THEN 1
  ELSE IF ord(Head(x)) < ord(Head(y)) THEN -1
  ELSE IF ord(Head(x)) > ord(Head(y)) THEN 1
  ELSE cmp(Tail(x), Tail(y))

RECURSIVE InsertSorted(_, _)
\* put item after every item of the sorted list whose key is not greater
InsertSorted(sorted, item) ==
  IF Len(sorted) = 0 THEN <<item>>
  ELSE IF cmp(item[1], Head(sorted)[1]) < 0 THEN <<item>> \o sorted
  ELSE <<Head(sorted)>> \o InsertSorted(Tail(sorted), item)

RECURSIVE SortFrom(_, _, _)
SortFrom(sorted, items, i) ==
  IF i > Len(items) THEN sorted
  ELSE SortFrom(InsertSorted(sorted, items[i]), items, i + 1)

SortByKeyOmitted(items) == items

\* items.sort(lambda x,y:cmp(x[0], y[0])): a stable sort by key
SortByKey(items) == SortFrom(<<>>, items, 1)

RECURSIVE join(_, _)
\* sep.join(list of str)
join(sep, strs) ==
  IF Len(strs) = 0 THEN <<>>
  ELSE IF Len(strs) = 1 THEN strs[1].s
  ELSE strs[1].s \o sep \o join(sep, Tail(strs))

Digits == <<"0", "1", "2", "3", "4", "5", "6", "7", "8", "9">>
RECURSIVE IntToStr(_)
IntToStr(n) ==
  IF n < 10 THEN <<Digits[n + 1]>>
  ELSE IntToStr(n \div 10) \o <<Digits[(n % 10) + 1]>>

\* str(v)
str(v) ==
  CASE v.kind = "str" -> v.s
    [] v.kind = "int" -> IntToStr(v.n)
    [] v.kind = "None" -> <<"N", "o", "n", "e">>

\* bool(v): None is false, a str, a list and a Response (through __len__)
\* are true when not empty, an int when not zero
Truthy(v) ==
  CASE v.kind = "None" -> FALSE
    [] v.kind = "str" -> Len(v.s) > 0
    [] v.kind = "list" -> Len(v.items) > 0
    [] v.kind = "Response" -> Len(v.children) > 0
    [] v.kind = "int" -> v.n # 0

RECURSIVE quote_plus(_)
\* urllib.quote_plus, on the characters of the model
quote_plus(cs) ==
  IF Len(cs) = 0 THEN <<>>
  ELSE (CASE Head(cs) = "," -> <<"%", "2", "C">>
          [] Head(cs) = ":" -> <<"%", "3", "A">>
          [] Head(cs) = "/" -> <<"%", "2", "F">>
          [] OTHER -> <<Head(cs)>>) \o quote_plus(Tail(cs))

RECURSIVE urlencode(_)
\* urllib.urlencode of a dict
urlencode(d) ==
  IF Len(d) = 0 THEN <<>>
  ELSE quote_plus(d[1][1]) \o <<"=">> \o quote_plus(str(d[1][2]))
       \o (IF Len(d) = 1 THEN <<>> ELSE <<"&">> \o urlencode(Tail(d)))

\* hashlib.md5: the digest is a symbol built from the bytes fed to the hash
md5_hexdigest(data) == StrV(<<"md5(">> \o data \o <<")">>)

(***************************************************************************)
(* class Flipy                                                             *)
(***************************************************************************)
\* Flipy.__init__
Flipy(api_key, secret, token) ==
  [default_args |-> << <<s_api_key, StrV(api_key)>> >>,
   secret |-> secret, token |-> token]

RECURSIVE FlattenArgs(_, _, _)
\* for k,v in kwargs.items(): a[k] = ','.join(v) or a[k] = v
FlattenArgs(a, kwargs, i) ==
  IF i > Len(kwargs) THEN a
  ELSE FlattenArgs(
         SetItem(a, kwargs[i][1],
                 IF kwargs[i][2].kind = "list"
                 THEN StrV(join(<<",">>, kwargs[i][2].items))
                 ELSE kwargs[i][2]),
         kwargs, i + 1)

RECURSIVE HashItems(_, _, _)
\* for k, v in items: hash.update(k + v)
HashItems(data, items, i) ==
  IF i > Len(items) THEN StrV(data)
  ELSE IF items[i][2].kind # "str"
  THEN Raise("TypeError", <<>>)
  ELSE HashItems(data \o items[i][1] \o items[i][2].s, items, i + 1)

\* the dict a of Flipy.__url before the signature is added
MergedArgs(self, kwargs) ==
  FlattenArgs(IF Truthy(self.token)
              THEN SetItem(self.default_args, s_auth_token, self.token)
              ELSE self.default_args,
              kwargs, 1)

\* the dict a of Flipy.__url when it is urlencoded, or the exception raised
UrlArgs(self, kwargs) ==
  LET a == MergedArgs(self, kwargs) IN
  IF Truthy(self.secret)
  THEN LET h == HashItems(self.secret.s, SortByKey(a), 1) IN
       IF IsRaise(h) THEN h
       ELSE DictV(SetItem(a, s_api_sig, md5_hexdigest(h.s)))
  ELSE DictV(a)

\* Flipy.__url; the dict is kept next to the string it is encoded into
Url(self, base, kwargs) ==
  LET a == UrlArgs(self, kwargs) IN
  IF IsRaise(a) THEN a
  ELSE [kind |-> "url", s |-> base \o <<"?">> \o urlencode(a.d), a |-> a.d]

\* Flipy.resturl
resturl(self, kwargs) == Url(self, s_rest, kwargs)

(***************************************************************************)
(* Sign: Flipy.resturl applied to the same keyword arguments in two        *)
(* insertion orders.                                                       *)
(***************************************************************************)
MaxArgs == 3

\* the keyword arguments a call is tried with
ArgPairs ==
  { <<s_method, StrV(s_flickr_test)>>,
    <<s_tags, ListV(<<StrV(s_a), StrV(s_b)>>)>>,
    <<s_user_id, StrV(s_1)>>,
    <<s_api_key, StrV(s_key2)>>,
    <<s_page, IntV(1)>> }

\* the dicts holding exactly the pairs of P, in every insertion order
DictsOf(P) ==
  {d \in [1..Cardinality(P) -> P] : \A i, j \in 1..Cardinality(P) : i # j => d[i] # d[j]}

Secrets == {None, StrV(<<>>), StrV(s_secret)}
Tokens == {None, StrV(s_tok)}

InitSign ==
  /\ signer \in {Flipy(s_key, sec, tok) : sec \in Secrets, tok \in Tokens}
  /\ \E P \in SUBSET ArgPairs :
       /\ Cardinality(P) <= MaxArgs
       /\ argsA \in DictsOf(P)
       /\ argsB \in DictsOf(P)
  /\ urlA = Pending
  /\ urlB = Pending
  /\ node = None /\ mapped = Pending
  /\ module_flickr = Unbound /\ client = None /\ remote = None /\ pc = "idle"
  /\ args = <<>> /\ results = None /\ idx = 0 /\ yielded = <<>>
  /\ fetches = <<>> /\ response = None /\ exc = None

CallA ==
  /\ urlA = Pending
  /\ urlA' = resturl(signer, argsA)
  /\ UNCHANGED <<signer, argsA, argsB, urlB, varsMap, varsCall>>

CallB ==
  /\ urlB = Pending
  /\ urlB' = resturl(signer, argsB)
  /\ UNCHANGED <<signer, argsA, argsB, urlA, varsMap, varsCall>>

(***************************************************************************)
(* lxml elements and the remote end.                                       *)
(***************************************************************************)
\* node.get(key)
get(n, key) == IF key \in DOMAIN n.attrib THEN StrV(n.attrib[key]) ELSE None

\* node.find(tag): the first child with that tag, or None
find(n, tag) ==
  IF \E i \in 1..Len(n.children) : n.children[i].tag = tag
  THEN LET i == CHOOSE i \in 1..Len(n.children) :
                  /\ n.children[i].tag = tag
                  /\ \A j \in 1..(i - 1) : n.children[j].tag # tag
       IN [kind |-> "element", e |-> n.children[i]]
  ELSE None

RECURSIVE StrToInt(_)
\* the page number the remote end reads out of the query string
StrToInt(cs) ==
  IF Len(cs) = 0 THEN 0
  ELSE 10 * StrToInt(SubSeq(cs, 1, Len(cs) - 1))
       + (CHOOSE d \in 0..9 : Digits[d + 1] = cs[Len(cs)])

MaxPage == 3
MaxItems == 2

\* How a remote method answers.
\*   withPage: the payload carries page = the requested page
\*   pages:    the payload carries pages = this number (0: no pages field)
\*   lastPage: the payload carries has_next_page, "1" before this page and
\*             "0" from it on (0: no has_next_page field)
\*   first:    the items on page 1; every later page holds one item less
\*   kids:     the number of children of a successful envelope
\*   failAt:   the page answered by a failure envelope (0: none)
\*   failStat: the stat of that envelope
\*   failErr:  whether that envelope has an err child
Remotes ==
  [withPage : BOOLEAN, pages : 0..MaxPage, lastPage : 0..(MaxPage - 1),
   first : 0..MaxItems, kids : {1}, failAt : {0},
   failStat : {s_fail}, failErr : {TRUE}]
  \cup [withPage : {TRUE}, pages : {0, 2}, lastPage : {0}, first : {MaxItems},
        kids : {0, 2}, failAt : {0}, failStat : {s_fail}, failErr : {TRUE}]
  \cup [withPage : {TRUE}, pages : {0, 2}, lastPage : {0}, first : {MaxItems},
        kids : {1}, failAt : 1..2, failStat : {s_fail, s_error},
        failErr : BOOLEAN]

ItemsOn(r, p) == IF r.first >= p THEN r.first - (p - 1) ELSE 0

ItemElement(p, i) ==
  Element(s_photo, [k \in {s_id} |-> IntToStr(p) \o IntToStr(i)], <<>>, None)

PayloadAttrib(r, p) ==
  LET names == (IF r.withPage THEN {s_page} ELSE {})
               \cup (IF r.pages > 0 THEN {s_pages} ELSE {})
               \cup (IF r.lastPage > 0 THEN {s_has_next_page} ELSE {})
  IN [k \in names |->
        IF k = s_page THEN IntToStr(p)
        ELSE IF k = s_pages THEN IntToStr(r.pages)
        ELSE IF p < r.lastPage THEN s_1 ELSE s_0]

Payload(r, p) ==
  Element(s_photos, PayloadAttrib(r, p),
          [i \in 1..ItemsOn(r, p) |-> ItemElement(p, i)], None)

OkEnvelope(kids) == Element(s_rsp, [k \in {s_stat} |-> s_ok], kids, None)

ErrElement ==
  Element(s_err, [k \in {s_code, s_msg} |-> IF k = s_code THEN s_1 ELSE s_x],
          <<>>, None)

FailEnvelope(r) ==
  Element(s_rsp, [k \in {s_stat} |-> r.failStat],
          IF r.failErr THEN <<ErrElement>> ELSE <<>>, None)

\* the answer to flickr.photos.getInfo
InfoEnvelope(a) ==
  OkEnvelope(<< Element(s_photo, [k \in {s_id} |-> str(Lookup(a, s_photo_id))],
                        << Element(s_owner, [k \in {s_nsid} |-> s_1], <<>>, None) >>,
                        None) >>)

\* the envelope the remote end sends for the query a
Respond(r, a) ==
  IF Lookup(a, s_method).s = s_flickr_dot \o s_photos \o <<".">> \o s_getInfo
  THEN InfoEnvelope(a)
  ELSE LET p == IF s_page \in Keys(a) THEN StrToInt(str(Lookup(a, s_page))) ELSE 1
       IN IF r.failAt = p THEN FailEnvelope(r)
          ELSE OkEnvelope(
                 CASE r.kids = 0 -> <<>>
                   [] r.kids = 1 -> <<Payload(r, p)>>
                   [] r.kids = 2 -> <<Payload(r, p),
                                      Element(s_total, EmptyDict, <<>>, StrV(s_1))>>)

(***************************************************************************)
(* FlipyFlickrError, Flipy.parse_response, class Method                    *)
(***************************************************************************)
\* FlipyFlickrError(rsp): the exception that leaves the constructor call
FlipyFlickrError(rsp) ==
  IF get(rsp, s_stat) # StrV(s_fail) THEN Raise("AssertionError", <<>>)
  ELSE LET err == find(rsp, s_err) IN
       IF err = None THEN Raise("AttributeError", <<>>)
       ELSE Raise("FlipyFlickrError",
                  s_Error_ \o str(get(err.e, s_code)) \o <<":", " ">>
                  \o str(get(err.e, s_msg)))

\* the value of the global name "flickr" in parse_response
GlobalFlickr(self, g) == g

RECURSIVE GetAll(_, _, _, _)
\* [Response.get(flickr, c) for c in children]
GetAll(g, children, i, acc) ==
  IF i > Len(children) THEN ListV(acc)
  ELSE IF g = Unbound THEN Raise("NameError", <<>>)
  ELSE LET v == ResponseGet(g, children[i]) IN
       IF IsRaise(v) THEN v ELSE GetAll(g, children, i + 1, Append(acc, v))

\* Flipy.parse_response, with the module globals g(lobal flickr)
parse_response(self, g, n) ==
  IF get(n, s_stat) # StrV(s_ok) THEN FlipyFlickrError(n)
  ELSE IF Len(n.children) = 1
  THEN IF GlobalFlickr(self, g) = Unbound THEN Raise("NameError", <<>>)
       ELSE ResponseGet(GlobalFlickr(self, g), n.children[1])
  ELSE GetAll(GlobalFlickr(self, g), n.children, 1, <<>>)

\* Method.__init__
Method(flickr, methodName) == [flickr |-> flickr, methodName |-> methodName]
\* Flipy.__getattr__
Flipy_getattr(self, key) == Method(self, s_flickr_dot \o key)
\* Method.__getattr__ (Method.CUSTOM is empty)
Method_getattr(m, key) == Method(m.flickr, m.methodName \o <<".">> \o key)

\* Method.__call__: the request sent (None if none), the envelope received
\* (None if none) and the value returned or the exception raised
Call(m, kwargs, g, r) ==
  LET u == resturl(m.flickr, <<<<s_method, StrV(m.methodName)>>>> \o kwargs) IN
  IF IsRaise(u) THEN [request |-> None, response |-> None, value |-> u]
  ELSE LET rsp == Respond(r, u.a) IN
       [request |-> u, response |-> rsp,
        value |-> parse_response(m.flickr, g, rsp)]

\* flickr.photos.search
PhotosSearch(c) == Method_getattr(Flipy_getattr(c, s_photos), s_search)

\* the keyword arguments Photo.info passes on
InfoArgs(photo) ==
  LET a == << <<s_photo_id, getattr(photo, s_id)>> >> IN
  IF Truthy(getattr(photo, s_secret))
  THEN SetItem(a, s_secret, getattr(photo, s_secret)) ELSE a

\* x == y for the values the paginator compares
PyEq(x, y) == x.kind \in {"str", "None"} /\ x = y

(***************************************************************************)
(* The caller: a direct call, Photo.info on its result, and the generator  *)
(* Method.paginate driven by its consumer.                                 *)
(***************************************************************************)
MainClient == Flipy(s_main_key, None, None)
OtherClients == {Flipy(s_key, None, None), Flipy(s_key2, StrV(s_secret), StrV(s_tok))}

Init ==
  /\ module_flickr \in {Unbound, MainClient}
  /\ client \in OtherClients \cup (IF module_flickr = Unbound THEN {} ELSE {MainClient})
  /\ remote \in Remotes
  /\ pc = "new"
  /\ args = <<>>
  /\ results = None
  /\ idx = 0
  /\ yielded = <<>>
  /\ fetches = <<>>
  /\ response = None
  /\ exc = None
  /\ node = None /\ mapped = Pending
  /\ signer = None /\ argsA = <<>> /\ argsB = <<>>
  /\ urlA = Pending /\ urlB = Pending

\* the effect of one Method.__call__ on the transport log and the caller
Invoke(m, kwargs, then) ==
  LET c == Call(m, kwargs, module_flickr, remote) IN
  /\ fetches' = IF c.request = None THEN fetches ELSE Append(fetches, c.request)
  /\ response' = c.response
  /\ IF IsRaise(c.value)
     THEN exc' = c.value /\ pc' = "raised" /\ UNCHANGED results
     ELSE exc' = None /\ pc' = then /\ results' = c.value

\* results = flickr.photos.search()
DirectCall ==
  /\ pc = "new"
  /\ Invoke(PhotosSearch(client), <<>>, "called")
  /\ UNCHANGED <<module_flickr, client, remote, args, idx, yielded>>
  /\ UNCHANGED <<varsMap, varsSign>>

\* results[0].info(), Photo.info
PhotoInfo ==
  /\ pc = "called"
  /\ results.kind = "Response" /\ len(results) > 0
  /\ getitem(results, 0).kind = "Response" /\ getitem(results, 0).class = "Photo"
  /\ LET photo == getitem(results, 0) IN
     Invoke(Method_getattr(Flipy_getattr(photo.flickr, s_photos), s_getInfo),
            InfoArgs(photo), "info")
  /\ UNCHANGED <<module_flickr, client, remote, args, idx, yielded>>
  /\ UNCHANGED <<varsMap, varsSign>>

\* the consumer's first next(): args['page'] = 1 and into the loop
Start ==
  /\ pc = "new"
  /\ args' = SetItem(<<>>, s_page, IntV(1))
  /\ pc' = "fetch"
  /\ UNCHANGED <<module_flickr, client, remote, results, idx, yielded, fetches,
                 response, exc>>
  /\ UNCHANGED <<varsMap, varsSign>>

\* results = self(**args)
Fetch ==
  /\ pc = "fetch"
  /\ Lookup(args, s_page).n <= MaxPage
  /\ Invoke(PhotosSearch(client), args, "for")
  /\ idx' = 0
  /\ UNCHANGED <<module_flickr, client, remote, args, yielded>>
  /\ UNCHANGED <<varsMap, varsSign>>

\* what "for result in results" walks through
Iterable(v) ==
  CASE v.kind = "Response" -> v.children
    [] v.kind = "list" -> v.items
    [] v.kind = "str" -> [i \in 1..Len(v.s) |-> StrV(<<v.s[i]>>)]

\* for result in results: yield result
ForStep ==
  /\ pc = "for"
  /\ IF results.kind = "None"
     THEN /\ exc' = Raise("TypeError", <<>>) /\ pc' = "raised"
          /\ UNCHANGED <<idx, yielded>>
     ELSE IF idx < Len(Iterable(results))
     THEN /\ yielded' = Append(yielded, Iterable(results)[idx + 1])
          /\ idx' = idx + 1
          /\ pc' = "suspended"
          /\ UNCHANGED exc
     ELSE pc' = "decide" /\ UNCHANGED <<idx, yielded, exc>>
  /\ UNCHANGED <<module_flickr, client, remote, args, results, fetches, response>>
  /\ UNCHANGED <<varsMap, varsSign>>

\* the consumer asks for the next item
Resume ==
  /\ pc = "suspended"
  /\ pc' = "for"
  /\ UNCHANGED <<module_flickr, client, remote, args, results, idx, yielded,
                 fetches, response, exc>>
  /\ UNCHANGED <<varsMap, varsSign>>

\* the consumer abandons the generator
Close ==
  /\ pc = "suspended"
  /\ pc' = "closed"
  /\ UNCHANGED <<module_flickr, client, remote, args, results, idx, yielded,
                 fetches, response, exc>>
  /\ UNCHANGED <<varsMap, varsSign>>

\* if results.pages != None:
UsesPagesRule(r) == getattr(r, s_pages) # None

BreaksOnIntegerOne(r) ==
  IF UsesPagesRule(r)
  THEN PyEq(getattr(r, s_page), getattr(r, s_pages))
  ELSE IF getattr(r, s_has_next_page) # None
  THEN ~PyEq(getattr(r, s_has_next_page), IntV(1))
  ELSE TRUE

\* the tests after the for loop: TRUE to break
Breaks(r) ==
  IF UsesPagesRule(r)
  THEN PyEq(getattr(r, s_page), getattr(r, s_pages))
  ELSE IF getattr(r, s_has_next_page) # None
  THEN ~PyEq(getattr(r, s_has_next_page), StrV(s_1))
  ELSE TRUE

\* break, or args['page'] = args['page'] + 1
Decide ==
  /\ pc = "decide"
  /\ IF results.kind # "Response"
     THEN exc' = Raise("AttributeError", <<>>) /\ pc' = "raised" /\ UNCHANGED args
     ELSE IF Breaks(results)
     THEN pc' = "done" /\ UNCHANGED <<args, exc>>
     ELSE /\ args' = SetItem(args, s_page, IntV(Lookup(args, s_page).n + 1))
          /\ pc' = "fetch"
          /\ UNCHANGED exc
  /\ UNCHANGED <<module_flickr, client, remote, results, idx, yielded, fetches,
                 response>>
  /\ UNCHANGED <<varsMap, varsSign>>

NextMap == Map
NextSign == CallA \/ CallB
Next == DirectCall \/ PhotoInfo \/ Start \/ Fetch \/ ForStep \/ Resume
        \/ Close \/ Decide

SpecMap == InitMap /\ [][NextMap]_vars
SpecSign == InitSign /\ [][NextSign]_vars
Spec == Init /\ [][Next]_vars

(***************************************************************************)
(* Properties of Response.get.                                             *)
(***************************************************************************)
\* the children of n that are neither singularized nor in the Multiples Table
SingleChildren(n) ==
  {j \in 1..Len(n.children) :
     /\ ~IsSingularChild(n.tag, n.children[j].tag)
     /\ ~(n.tag \in DOMAIN MULTIPLES /\ n.children[j].tag \in MULTIPLES[n.tag])}

\* the children of n that the Multiples Table names
MultipleChildren(n) ==
  {j \in 1..Len(n.children) :
     /\ ~IsSingularChild(n.tag, n.children[j].tag)
     /\ n.tag \in DOMAIN MULTIPLES /\ n.children[j].tag \in MULTIPLES[n.tag]}

\* cases (a) and (b): a field name would be assigned twice at element n
LocalConflict(n) ==
  \/ \E j \in SingleChildren(n) :
       \/ n.children[j].tag \in DOMAIN n.attrib
       \/ \E i \in 1..(j - 1) : n.children[i].tag = n.children[j].tag
  \/ \E j \in MultipleChildren(n) : n.children[j].tag \in DOMAIN n.attrib

RECURSIVE ConflictExpected(_)
\* ... at n or at an element below it
ConflictExpected(n) ==
  \/ LocalConflict(n)
  \/ \E i \in 1..Len(n.children) : ConflictExpected(n.children[i])

\* every XML attribute and every single child is a field of its own
NothingOverwritten(n, r) ==
  /\ \A k \in DOMAIN n.attrib : has_key(r.attrs, k) /\ r.attrs[k] = StrV(n.attrib[k])
  /\ \A j \in SingleChildren(n) :
       /\ has_key(r.attrs, n.children[j].tag)
       /\ r.attrs[n.children[j].tag] = ResponseGet(r.flickr, n.children[j])
  /\ Cardinality(DOMAIN r.attrs) =
       Cardinality(DOMAIN n.attrib) + Cardinality(SingleChildren(n))
       + Cardinality({n.children[j].tag : j \in MultipleChildren(n)})

\* C5: Response.get raises FlipyAttributeConflictError exactly when, at the
\* element or below it, a single child's tag is already a field (from an XML
\* attribute or an earlier child) or a Multiples Table child's tag is an XML
\* attribute; otherwise every attribute and every single child has a field
\* of its own and no field was assigned twice.
C5_ConflictExactly ==
  mapped # Pending =>
    /\ (mapped = ConflictError) <=> ConflictExpected(node)
    /\ mapped.kind = "Response" => NothingOverwritten(node, mapped)

C5_Witness ==
  /\ mapped = ConflictError
  /\ \E j \in SingleChildren(node) :
       \E i \in 1..(j - 1) : node.children[i].tag = node.children[j].tag

\* a tag ending in "s" all of whose children have the stripped tag
PluralContainer(n) ==
  /\ endswith_s(n.tag)
  /\ \A i \in 1..Len(n.children) : n.children[i].tag = Singular(n.tag).s

PositionalChildrenMatch(n, r) ==
  /\ r.kind = "Response"
  /\ len(r) = Len(n.children)
  /\ \A i \in 0..(Len(n.children) - 1) :
       getitem(r, i) = ResponseGet(r.flickr, n.children[i + 1])

\* C6 as stated: every plural container, whatever its attributes and
\* however many children it has, maps (when no Attribute Conflict arises
\* below it) to a Response whose positional children are the mapped
\* children, in order.
C6_AnyPluralContainer ==
  (mapped # Pending /\ PluralContainer(node) /\ ~ConflictExpected(node))
    => PositionalChildrenMatch(node, mapped)

\* C6 amended: the same, for a plural container that has at least one
\* attribute or at least one child.
C6_NonEmptyPluralContainer ==
  (/\ mapped # Pending /\ PluralContainer(node) /\ ~ConflictExpected(node)
   /\ (Cardinality(DOMAIN node.attrib) > 0 \/ Len(node.children) > 0))
    => PositionalChildrenMatch(node, mapped)

C6_Witness ==
  /\ mapped.kind = "Response" /\ PluralContainer(node)
  /\ Len(node.children) = 2 /\ node.children[1] # node.children[2]
  /\ len(mapped) = 2

\* the mapped children of n with tag c, in document order
MappedWithTag(flickr, n, c) ==
  LET HasTag(e) == e.tag = c
      sel == SelectSeq(n.children, HasTag)
  IN [i \in 1..Len(sel) |-> ResponseGet(flickr, sel[i])]

\* C7: for a (parent, child) pair of the Multiples Table, a parent with
\* n >= 1 children of that tag and no XML attribute of that name maps (when
\* no Attribute Conflict arises) to a Response whose field of that name is
\* the list of the n mapped children in document order, a list also for n = 1.
C7_MultiplesAreLists ==
  mapped # Pending =>
    \A p \in DOMAIN MULTIPLES : \A c \in MULTIPLES[p] :
      (/\ node.tag = p
       /\ \E j \in 1..Len(node.children) : node.children[j].tag = c
       /\ c \notin DOMAIN node.attrib
       /\ ~ConflictExpected(node))
        => /\ mapped.kind = "Response"
           /\ has_key(mapped.attrs, c)
           /\ mapped.attrs[c] = ListV(MappedWithTag(mapped.flickr, node, c))

C7_Witness ==
  /\ mapped.kind = "Response" /\ node.tag = s_photo
  /\ Len(node.children) = 1 /\ node.children[1].tag = s_exif
  /\ mapped.attrs[s_exif].kind = "list" /\ Len(mapped.attrs[s_exif].items) = 1

(***************************************************************************)
(* Properties of Flipy.__url.                                              *)
(***************************************************************************)
\* the merged map as a set of pairs: the session defaults, the auth token
\* and the caller's arguments (lists joined by commas), later ones winning
MergedPairs(self, kwargs) ==
  LET callerKeys == Keys(kwargs)
      flat(v) == IF v.kind = "list" THEN StrV(join(<<",">>, v.items)) ELSE v
  IN {<<p[1], flat(p[2])>> : p \in ItemSet(kwargs)}
     \cup (IF Truthy(self.token) /\ s_auth_token \notin callerKeys
           THEN {<<s_auth_token, self.token>>} ELSE {})
     \cup {p \in ItemSet(self.default_args) : p[1] \notin callerKeys}

\* the pairs of P in ascending key order
Ascending(P) ==
  CHOOSE d \in DictsOf(P) :
    \A i \in 1..(Len(d) - 1) : cmp(d[i][1], d[i + 1][1]) < 0

RECURSIVE Concat(_)
\* key+value of every pair, with no separators
Concat(d) ==
  IF Len(d) = 0 THEN <<>> ELSE d[1][1] \o d[1][2].s \o Concat(Tail(d))

AllStr(P) == \A p \in P : p[2].kind = "str"

\* what one call must have produced
SignedAsSpecified(self, kwargs, url) ==
  LET P == MergedPairs(self, kwargs) IN
  IF Truthy(self.secret) /\ AllStr(P)
  THEN /\ url.kind = "url"
       /\ ItemSet(url.a) =
            P \cup {<<s_api_sig,
                      md5_hexdigest(self.secret.s \o Concat(Ascending(P)))>>}
  ELSE IF Truthy(self.secret)
  THEN url = Raise("TypeError", <<>>)
  ELSE url.kind = "url" /\ ItemSet(url.a) = P

\* C8: with a secret, api_sig is the digest of the secret followed by
\* key+value of every pair of the merged map (defaults, auth token, method,
\* caller arguments) in ascending key order, api_sig itself not included;
\* the same pairs inserted in another order give the same api_sig; without
\* a secret the arguments are sent as merged, with no api_sig added.
C8_SignatureOrderIndependent ==
  /\ urlA # Pending => SignedAsSpecified(signer, argsA, urlA)
  /\ urlB # Pending => SignedAsSpecified(signer, argsB, urlB)
  /\ (urlA # Pending /\ urlB # Pending) =>
       /\ IsRaise(urlA) <=> IsRaise(urlB)
       /\ (~IsRaise(urlA) /\ Truthy(signer.secret)) =>
            Lookup(urlA.a, s_api_sig) = Lookup(urlB.a, s_api_sig)
       /\ ~IsRaise(urlA) => ItemSet(urlA.a) = ItemSet(urlB.a)

C8_Witness ==
  /\ urlA.kind = "url" /\ urlB.kind = "url" /\ Truthy(signer.secret)
  /\ argsA # argsB /\ Len(argsA) >= 2
  /\ Lookup(urlA.a, s_api_sig) = Lookup(urlB.a, s_api_sig)

(***************************************************************************)
(* Properties of Method.__call__, Flipy.parse_response, Method.paginate.   *)
(***************************************************************************)
\* the generator has been started
Paginating == args # <<>>

\* the page parameter of every request sent so far, as sent
PagesFetched ==
  [i \in 1..Len(fetches) |-> str(Lookup(fetches[i].a, s_page))]

\* the ids of the items yielded so far
YieldedIds == [i \in 1..Len(yielded) |-> getattr(yielded[i], s_id)]

RECURSIVE ExpectedIds(_, _)
\* the ids of the items of pages 1..p of the remote r, page by page
ExpectedIds(r, p) ==
  IF p = 0 THEN <<>>
  ELSE ExpectedIds(r, p - 1)
       \o [i \in 1..ItemsOn(r, p) |-> StrV(IntToStr(p) \o IntToStr(i))]

IsPrefix(a, b) == Len(a) <= Len(b) /\ a = SubSeq(b, 1, Len(a))

\* the generator fetched pages 1..n in order, met no exception, never sets
\* out to fetch a page after the last one and, when it is done, has fetched
\* exactly the pages up to the last one and yielded exactly their items
FetchesExactly(last) ==
  /\ pc # "raised"
  /\ Len(fetches) <= last
  /\ PagesFetched = [i \in 1..Len(fetches) |-> IntToStr(i)]
  /\ IsPrefix(YieldedIds, ExpectedIds(remote, last))
  /\ pc = "done" => /\ Len(fetches) = last
                    /\ YieldedIds = ExpectedIds(remote, last)
  /\ pc = "fetch" => Lookup(args, s_page).n <= last

\* every successful response carries page = requested page and pages = P
PagedRemote ==
  /\ remote.withPage /\ remote.pages >= 1
  /\ remote.kids = 1 /\ remote.failAt = 0

\* C1: against a remote method whose responses carry page = the requested
\* page and a constant pages = P, paginate issues exactly the invocations
\* page = 1..P in order, yields every item in page order and item order,
\* and then is done; no invocation with page = P + 1 is issued.
C1_PaginateFetchesAllPages ==
  (Paginating /\ PagedRemote) => FetchesExactly(remote.pages)

\* C2: an invocation whose envelope has a status other than "ok" raises
\* FlipyFlickrError carrying code and msg of the err child, and no other
\* error, from a direct call and from inside paginate, where nothing more
\* is fetched.
C2_NotOkRaisesFlickrError ==
  (/\ response # None
   /\ get(response, s_stat) # StrV(s_ok)
   /\ find(response, s_err) # None)
    => /\ pc = "raised"
       /\ exc = Raise("FlipyFlickrError",
                      s_Error_ \o s_1 \o <<":", " ">> \o s_x)

\* the result lacks a complete page/pages pair and carries has_next_page
HasMoreCase(r) ==
  /\ r.kind = "Response"
  /\ ~(getattr(r, s_page) # None /\ getattr(r, s_pages) # None)
  /\ getattr(r, s_has_next_page) # None

\* after the decision on results: done only if has_next_page is not "1",
\* on to the next fetch only if it is "1"
StopsIffNoNextPage ==
  /\ pc = "done" => getattr(results, s_has_next_page) # StrV(s_1)
  /\ pc = "fetch" => getattr(results, s_has_next_page) = StrV(s_1)

\* C3 as stated: when the result does not carry both page and pages but
\* carries has_next_page, paginate stops after that page iff has_next_page
\* is not "1", and otherwise fetches the next page.
C3_HasMoreRule ==
  (Paginating /\ HasMoreCase(results)) => StopsIffNoNextPage

\* the result carries no pages field and carries has_next_page
HasMoreCaseNoPages(r) ==
  /\ r.kind = "Response"
  /\ getattr(r, s_pages) = None
  /\ getattr(r, s_has_next_page) # None

\* C3 amended: when the result carries no pages field (whether or not it
\* carries page) but carries has_next_page, paginate stops after that page
\* iff has_next_page is not "1", and otherwise fetches the next page.
C3_HasMoreRuleWithoutPages ==
  (Paginating /\ HasMoreCaseNoPages(results)) => StopsIffNoNextPage

C3_Witness ==
  /\ Paginating /\ HasMoreCaseNoPages(results) /\ pc = "done"
  /\ getattr(results, s_page) # None
  /\ Len(fetches) = 2

\* the responses carry no page, no pages and no has_next_page
NoSignalRemote ==
  /\ ~remote.withPage /\ remote.pages = 0 /\ remote.lastPage = 0
  /\ remote.kids = 1 /\ remote.failAt = 0

\* C4: against a remote method whose result carries no pagination field,
\* paginate performs the one invocation page = 1, yields the items of that
\* result in order and is done; no second request is issued.
C4_NoSignalSingleFetch ==
  (Paginating /\ NoSignalRemote) => FetchesExactly(1)

\* the entities of a returned value
Entities(v) ==
  CASE v.kind = "Response" ->
         {v} \cup {v.children[i] : i \in 1..Len(v.children)}
    [] v.kind = "list" -> {v.items[i] : i \in 1..Len(v.items)}
    [] OTHER -> {}

\* C9: every entity an invocation on the client returns holds that client
\* as its session, whether or not a module-level client exists, and so the
\* derived operations (Photo.info) send their requests through that client.
C9_EntitiesHoldTheirClient ==
  /\ ~(pc = "raised" /\ exc = Raise("NameError", <<>>))
  /\ \A e \in Entities(results) \cup {yielded[i] : i \in 1..Len(yielded)} :
       e.kind = "Response" => e.flickr = client
  /\ \A i \in 1..Len(fetches) :
       Lookup(fetches[i].a, s_api_key) = Lookup(client.default_args, s_api_key)

\* C10: on a client with a secret every invocation reaches the transport
\* with a signed URL, those of paginate included: every value handed to the
\* signer is a string, so the signer never fails.
C10_SignedInvocationsNeverFail ==
  Truthy(client.secret) =>
    /\ ~(pc = "raised" /\ response = None /\ exc = Raise("TypeError", <<>>))
    /\ (Paginating \/ pc = "called") =>
         \A i \in 1..Len(fetches) : s_api_sig \in Keys(fetches[i].a)
====
